---- MODULE Spec2Model ----
(***************************************************************************)
(* Model of rotate_keys.py: the rotation of an IAM user's access key and   *)
(* the propagation of the new key to GitHub secret stores.                 *)
(*                                                                         *)
(* Text is modelled as a sequence of string tokens.  An f-string is the    *)
(* concatenation of its literal parts and of the values it interpolates;   *)
(* a value that the code inspects character by character (the target list, *)
(* a target, the caller's ARN) is a sequence of one-token characters.      *)
(***************************************************************************)
EXTENDS Integers, Sequences, FiniteSets, TLC

(***************************************************************************)
(* Bounds of the model.                                                    *)
(***************************************************************************)
\* entries of OWNER_REPOSITORY
MaxTargets == 2

\* runs of the job against the same provider state
MaxRuns == 2

(***************************************************************************)
(* Inputs drawn from the process environment.                              *)
(***************************************************************************)
\* os.environ.get(...) of a variable that is not set
None == "<None>"

\* one comma-free entry of OWNER_REPOSITORY: an organization, a repository
\* written with surrounding blanks
Entries == { <<"o">>, <<" ", "o", "/", "r", " ">> }

RECURSIVE Join(_, _)
Join(parts, sep) ==
    IF Len(parts) = 0 THEN <<>>
    ELSE IF Len(parts) = 1 THEN parts[1]
    ELSE parts[1] \o <<sep>> \o Join(Tail(parts), sep)

EntryLists == UNION { [1..n -> Entries] : n \in 1..MaxTargets }

OwnerRepositoryValues == { Join(es, ",") : es \in EntryLists }

IamUsernameValues == { None, "ci-user" }

GithubEnvironmentValues == { None, "", "prod" }

GithubToken == "ghp_token"

AccessKeyNameValues == { None, "AWS_ID" }

SecretKeyNameValues == { None, "AWS_SECRET" }

\* principal identifiers sts.get_caller_identity can return
CallerArns == { <<"arn:aws:iam::1:user", "/", "svc-bot">>,
                <<"arn:aws:iam::1:user", "/", "team", "/", "svc-bot">> }

(***************************************************************************)
(* Pure helpers of the script.                                             *)
(***************************************************************************)
\* str.split(sep): the pieces between the occurrences of sep, at least one
RECURSIVE SplitFrom(_, _, _)
SplitFrom(s, sep, cur) ==
    IF Len(s) = 0 THEN <<cur>>
    ELSE IF Head(s) = sep THEN <<cur>> \o SplitFrom(Tail(s), sep, <<>>)
    ELSE SplitFrom(Tail(s), sep, Append(cur, Head(s)))

Split(s, sep) == SplitFrom(s, sep, <<>>)

\* str.strip(): leading and trailing blanks removed
RECURSIVE LStrip(_)
LStrip(s) ==
    IF Len(s) > 0 /\ Head(s) = " " THEN LStrip(Tail(s)) ELSE s

RECURSIVE RStrip(_)
RStrip(s) ==
    IF Len(s) > 0 /\ s[Len(s)] = " " THEN RStrip(SubSeq(s, 1, Len(s) - 1)) ELSE s

Strip(s) == LStrip(RStrip(s))

\* "/" in owner_repo
Contains(s, c) == \E i \in 1..Len(s) : s[i] = c

\* the targets taken from the end of the list
TargetList_reversed(owner_repository) ==
    LET pieces == Split(owner_repository, ",")
    IN  [i \in 1..Len(pieces) |-> Strip(pieces[Len(pieces) + 1 - i])]

\* [x.strip() for x in owner_repository.split(',')]
TargetList(owner_repository) ==
    LET pieces == Split(owner_repository, ",")
    IN  [i \in 1..Len(pieces) |-> Strip(pieces[i])]

\* user['Arn'].split("/")[-1]
LastSegment(arn) ==
    LET pieces == Split(arn, "/")
        last == pieces[Len(pieces)]
    IN  IF Len(last) = 0 THEN "" ELSE last[1]

\* the walrus test `if environment_name := os.environ.get('GITHUB_ENVIRONMENT')`
EnvironmentScoped(github_environment) ==
    github_environment # None /\ github_environment # ""

\* the two path segments exchanged
EndpointPath_swapped(owner_repo) == IF Contains(owner_repo, "/") THEN "orgs" ELSE "repos"

\* endpoint_path = 'repos' if "/" in owner_repo else 'orgs'
EndpointPath(owner_repo) == IF Contains(owner_repo, "/") THEN "repos" ELSE "orgs"

\* the endpoint of get_pub_key, after "https://api.github.com/"
PubKeyEndpoint(owner_repo, github_environment) ==
    IF EnvironmentScoped(github_environment)
    THEN <<EndpointPath(owner_repo), "/">> \o owner_repo
            \o <<"/", "environments", "/", github_environment, "/", "secrets", "/", "public-key">>
    ELSE <<EndpointPath(owner_repo), "/">> \o owner_repo
            \o <<"/", "actions", "/", "secrets", "/", "public-key">>

\* the environment-scoped endpoint written with the "actions" segment kept
SecretEndpoint_actions(owner_repo, key_name, github_environment) ==
    IF EnvironmentScoped(github_environment)
    THEN <<EndpointPath(owner_repo), "/">> \o owner_repo
            \o <<"/", "environments", "/", github_environment,
                 "/", "actions", "/", "secrets", "/", key_name>>
    ELSE <<EndpointPath(owner_repo), "/">> \o owner_repo
            \o <<"/", "actions", "/", "secrets", "/", key_name>>

\* the endpoint of upload_secret, after "https://api.github.com/"
SecretEndpoint(owner_repo, key_name, github_environment) ==
    IF EnvironmentScoped(github_environment)
    THEN <<EndpointPath(owner_repo), "/">> \o owner_repo
            \o <<"/", "environments", "/", github_environment, "/", "secrets", "/", key_name>>
    ELSE <<EndpointPath(owner_repo), "/">> \o owner_repo
            \o <<"/", "actions", "/", "secrets", "/", key_name>>


(***************************************************************************)
(* Decisions of the script.                                                *)
(***************************************************************************)
\* os.environ.get('IAM_USERNAME', who_am_i()): the value of the variable
\* when it is set, the default otherwise
IamUsername(iam_username_env, who_am_i_ret) ==
    IF iam_username_env # None THEN iam_username_env ELSE who_am_i_ret

\* Python evaluates the arguments of a call before the call: the default
\* who_am_i() is computed whether or not IAM_USERNAME is set
WhoAmICalled(iam_username_env) == TRUE

\* the guard dropped
TooManyKeys_none(starting_num_keys) == FALSE

\* the guard written with > in place of >=
TooManyKeys_gt(starting_num_keys) == starting_num_keys > 2

\* if starting_num_keys >= 2
TooManyKeys(starting_num_keys) == starting_num_keys >= 2

\* the verification with its test dropped
NewKeyMissing_never(new_key, access_keys) == FALSE

\* if new_access_key not in access_keys
NewKeyMissing(new_key, access_keys) ==
    ~ \E i \in 1..Len(access_keys) : access_keys[i] = new_key

\* the retirement test comparing with the limit instead of 1
ShouldDeleteOld_two(starting_num_keys) == starting_num_keys = 2

\* if starting_num_keys == 1
ShouldDeleteOld(starting_num_keys) == starting_num_keys = 1

\* the status of the delete response never looked at
DeleteFailed_never(status) == FALSE

\* if delete_ret['ResponseMetadata']['HTTPStatusCode'] != 200
DeleteFailed(status) == status # 200

\* every 2xx status taken for success
PubKeyFailed_2xx(status) == ~ (status >= 200 /\ status < 300)

\* the status of the public-key response never looked at
PubKeyFailed_never(status) == FALSE

\* if not pub_key_ret.status_code == requests.codes.ok
PubKeyFailed(status) == ~ (status = 200)

\* 200 taken for a good status of an upload
UploadFailed_lenient(status) == status \notin {200, 204, 201}

\* good_status_codes = [204, 201]; status_code not in good_status_codes
UploadFailed(status) == status \notin {204, 201}

(***************************************************************************)
(* Sealed-box encryption.  The box names its recipient key, carries the    *)
(* plaintext and the ephemeral key pair the library drew for it; what      *)
(* leaves encrypt() is the base64 text of the box.  The ephemeral key pair *)
(* is fresh for every box: it is named by the number of the box.           *)
(***************************************************************************)
NoBox == [encoding |-> "", recipient |-> "", plaintext |-> "", eph |-> 0]

\* the box sealed for a key kept from another store
Encrypt_fixedkey(public_key, secret_value, eph) ==
    [encoding |-> "base64", recipient |-> "pk:orgs/o/actions/secrets/public-key",
     plaintext |-> secret_value, eph |-> eph]

Encrypt(public_key, secret_value, eph) ==
    [encoding |-> "base64", recipient |-> public_key,
     plaintext |-> secret_value, eph |-> eph]

(***************************************************************************)
(* The two providers, at their interface.                                  *)
(***************************************************************************)
\* access keys an IAM user can hold
KeyLimit == 2

\* answers of the IAM and STS calls; on 403 botocore raises ClientError
IamStatuses == {200, 403}

\* answers of the delete; 202 stands for a response that is not 200
DeleteStatuses == {200, 202, 403}

\* answers of the public-key fetch
PubKeyStatuses == {200, 202, 404}

\* answers of an upload that stores nothing
UploadRefusals == {200, 422}

\* answers of an upload: the store creates the secret (201) or updates the
\* one it holds (204), or it refuses
UploadStatuses(endpoint, held) ==
    UploadRefusals \cup {IF endpoint \in held THEN 204 ELSE 201}

KeyId(n) == "AKIA" \o ToString(n)
SecretOf(n) == "secret" \o ToString(n)

RECURSIVE Text(_)
Text(tokens) == IF Len(tokens) = 0 THEN "" ELSE Head(tokens) \o Text(Tail(tokens))

\* the public key a secret store hands out, one per store
GithubPublicKey(endpoint) ==
    [key |-> "pk:" \o Text(endpoint), key_id |-> "id:" \o Text(endpoint)]

InitialKeyLists == { <<>>, <<"AKIA1">>, <<"AKIA1", "AKIA2">> }

NoBody == [encrypted_value |-> NoBox, key_id |-> "", visibility |-> ""]

\* one external call, as it goes out and as it is answered
Call(api, user, key, endpoint, auth, body, status) ==
    [api |-> api, UserName |-> user, AccessKeyId |-> key, endpoint |-> endpoint,
     Authorization |-> auth, json |-> body, status |-> status]

IamCall(api, user, key, status) == Call(api, user, key, <<>>, "", NoBody, status)


(***************************************************************************)
(* State.                                                                  *)
(***************************************************************************)
VARIABLES
    environ,              \* the process environment of the job
    iamKeys,              \* provider: the user's access keys, as listed
    nextKey,              \* provider: number of the next key it mints
    storeSecrets,         \* secret stores: the endpoints that hold a secret
    run,                  \* number of the current run of the job
    residual,             \* history: an earlier run left the old and the new key
    pc,                   \* position of the run in main_function
    exit_status,          \* -1 while running, then the exit status
    iam_username,
    list_ret,             \* AccessKeyMetadata of the first list
    starting_num_keys,
    new_access_key,
    new_secret_key,
    access_keys,          \* the key ids of the second list
    targets,              \* the list the for loop iterates over
    repos,                \* index of the loop's current target
    public_key,
    pub_key_id,
    encrypted_access_key,
    encrypted_secret_key,
    boxes,                \* boxes this process has sealed
    calls,                \* external calls of this run, in order
    stdout,               \* lines printed by this run
    raised,               \* message of the exception that ended the run
    output_file           \* lines this run appended to GITHUB_OUTPUT

\* os.environ.get('GITHUB_ACCESS_KEY_NAME', 'access_key_id')
access_key_name ==
    IF environ.GITHUB_ACCESS_KEY_NAME # None
    THEN environ.GITHUB_ACCESS_KEY_NAME ELSE "access_key_id"

\* os.environ.get('GITHUB_SECRET_KEY_NAME', 'secret_key_id')
secret_key_name ==
    IF environ.GITHUB_SECRET_KEY_NAME # None
    THEN environ.GITHUB_SECRET_KEY_NAME ELSE "secret_key_id"

provider == <<iamKeys, nextKey>>
locals == <<iam_username, list_ret, starting_num_keys, new_access_key, new_secret_key,
            access_keys,
            targets, repos, public_key, pub_key_id,
            encrypted_access_key, encrypted_secret_key>>
vars == <<environ, iamKeys, nextKey, storeSecrets, run, residual, pc, exit_status, iam_username, list_ret,
          starting_num_keys, new_access_key, new_secret_key, access_keys, targets, repos,
          public_key, pub_key_id, encrypted_access_key, encrypted_secret_key,
          boxes, calls, stdout, raised, output_file>>

\* the state of a process that has just been started
FreshProcess ==
    /\ pc = "resolve"
    /\ exit_status = -1
    /\ iam_username = None
    /\ list_ret = <<>>
    /\ starting_num_keys = -1
    /\ new_access_key = None
    /\ new_secret_key = None
    /\ access_keys = <<>>
    /\ targets = <<>>
    /\ repos = 0
    /\ public_key = None
    /\ pub_key_id = None
    /\ encrypted_access_key = NoBox
    /\ encrypted_secret_key = NoBox
    /\ boxes = 0
    /\ calls = <<>>
    /\ stdout = <<>>
    /\ raised = <<>>
    /\ output_file = <<>>

Init ==
    /\ environ \in [IAM_USERNAME : IamUsernameValues,
                    GITHUB_ENVIRONMENT : GithubEnvironmentValues,
                    OWNER_REPOSITORY : OwnerRepositoryValues,
                    GITHUB_ACCESS_KEY_NAME : AccessKeyNameValues,
                    GITHUB_SECRET_KEY_NAME : SecretKeyNameValues,
                    PERSONAL_ACCESS_TOKEN : {GithubToken}]
    /\ iamKeys \in InitialKeyLists
    /\ nextKey = 3
    /\ storeSecrets = {}
    /\ run = 1
    /\ residual = FALSE
    /\ FreshProcess

\* sys.exit(status)
Exit(status) ==
    /\ pc' = "exited"
    /\ exit_status' = status

\* an exception nobody catches: the interpreter prints it and exits with 1
Raise(message) ==
    /\ raised' = message
    /\ Exit(1)

\* print(line)
StdoutLine(line) == stdout' = Append(stdout, line)


(***************************************************************************)
(* The steps of main_function.                                             *)
(***************************************************************************)
\* iam_username = os.environ.get('IAM_USERNAME', who_am_i())
ResolveIdentity ==
    /\ pc = "resolve"
    /\ IF WhoAmICalled(environ.IAM_USERNAME)
       THEN \E status \in IamStatuses, arn \in CallerArns :
              /\ calls' = Append(calls, IamCall("sts.get_caller_identity", "", "", status))
              /\ IF status = 200
                 THEN /\ iam_username' = IamUsername(environ.IAM_USERNAME, LastSegment(arn))
                      /\ pc' = "list"
                      /\ UNCHANGED <<exit_status, raised>>
                 ELSE /\ Raise(<<"ClientError", "GetCallerIdentity">>)
                      /\ UNCHANGED iam_username
       ELSE /\ iam_username' = IamUsername(environ.IAM_USERNAME, None)
            /\ pc' = "list"
            /\ UNCHANGED <<calls, exit_status, raised>>
    /\ UNCHANGED <<environ, storeSecrets, provider, run, residual, list_ret, starting_num_keys, new_access_key,
                   new_secret_key, access_keys, targets, repos, public_key, pub_key_id,
                   encrypted_access_key, encrypted_secret_key, boxes, stdout, output_file>>

\* list_ret = iam.list_access_keys(...) and the check of the number of keys
ListKeys ==
    /\ pc = "list"
    /\ \E status \in IamStatuses :
         /\ calls' = Append(calls, IamCall("iam.list_access_keys", iam_username, "", status))
         /\ IF status # 200
            THEN /\ Raise(<<"ClientError", "ListAccessKeys">>)
                 /\ UNCHANGED <<list_ret, starting_num_keys, stdout>>
            ELSE /\ list_ret' = iamKeys
                 /\ starting_num_keys' = Len(iamKeys)
                 /\ IF TooManyKeys(Len(iamKeys))
                    THEN /\ StdoutLine(<<"There are already 2 keys for this user. Cannot rotate tokens.">>)
                         /\ Exit(1)
                    ELSE /\ StdoutLine(<<"Validated <2 keys exist (current count: ",
                                         ToString(Len(iamKeys)), "), proceeding.">>)
                         /\ pc' = "create"
                         /\ UNCHANGED exit_status
                 /\ UNCHANGED raised
    /\ UNCHANGED <<environ, storeSecrets, provider, run, residual, iam_username, new_access_key,
                   new_secret_key, access_keys, targets, repos, public_key, pub_key_id,
                   encrypted_access_key, encrypted_secret_key, boxes, output_file>>

\* create_new_keys: iam.create_access_key(...)
CreateKey ==
    /\ pc = "create"
    /\ \E status \in IamStatuses :
         /\ status = 200 => Len(iamKeys) < KeyLimit
         /\ calls' = Append(calls, IamCall("iam.create_access_key", iam_username, "", status))
         /\ IF status # 200
            THEN /\ Raise(<<"ClientError", "CreateAccessKey">>)
                 /\ UNCHANGED <<provider, new_access_key, new_secret_key>>
            ELSE /\ iamKeys' = Append(iamKeys, KeyId(nextKey))
                 /\ nextKey' = nextKey + 1
                 /\ new_access_key' = KeyId(nextKey)
                 /\ new_secret_key' = SecretOf(nextKey)
                 /\ pc' = "verify"
                 /\ UNCHANGED <<exit_status, raised>>
    /\ UNCHANGED <<environ, storeSecrets, run, residual, iam_username, list_ret, starting_num_keys,
                   access_keys, targets, repos, public_key, pub_key_id,
                   encrypted_access_key, encrypted_secret_key, boxes, stdout, output_file>>

\* what a list issued right after the creation can answer: every key, or,
\* when the provider's read lags behind its write, the keys without the new one
ListAfterCreate(lagging) ==
    IF lagging THEN SelectSeq(iamKeys, LAMBDA k : k # new_access_key) ELSE iamKeys

\* create_new_keys: the second list and the check that the new key is in it
VerifyKey ==
    /\ pc = "verify"
    /\ \E status \in IamStatuses, lagging \in BOOLEAN :
         /\ calls' = Append(calls, IamCall("iam.list_access_keys", iam_username, "", status))
         /\ IF status # 200
            THEN /\ Raise(<<"ClientError", "ListAccessKeys">>)
                 /\ UNCHANGED <<access_keys, stdout>>
            ELSE /\ access_keys' = ListAfterCreate(lagging)
                 /\ IF NewKeyMissing(new_access_key, ListAfterCreate(lagging))
                    THEN /\ StdoutLine(<<"new keys failed to generate.">>)
                         /\ Exit(1)
                    ELSE /\ StdoutLine(<<"new keys generated, proceeding">>)
                         /\ pc' = "output"
                         /\ UNCHANGED exit_status
                 /\ UNCHANGED raised
    /\ UNCHANGED <<environ, storeSecrets, provider, run, residual, iam_username, list_ret, starting_num_keys,
                   new_access_key, new_secret_key, targets, repos, public_key, pub_key_id,
                   encrypted_access_key, encrypted_secret_key, boxes, output_file>>

\* the secret-value line written before the access-id line
OutputLines_swapped(access_key, secret_key) ==
    << <<secret_key_name, "=", secret_key>>, <<access_key_name, "=", access_key>> >>

\* the two lines written to GITHUB_OUTPUT
OutputLines(access_key, secret_key) ==
    << <<access_key_name, "=", access_key>>, <<secret_key_name, "=", secret_key>> >>

\* with open(os.environ['GITHUB_OUTPUT'], 'a') ...; then the loop is entered
WriteOutput ==
    /\ pc = "output"
    /\ output_file' = output_file \o OutputLines(new_access_key, new_secret_key)
    /\ targets' = TargetList(environ.OWNER_REPOSITORY)
    /\ repos' = 1
    /\ pc' = "get_pub_key"
    /\ UNCHANGED <<environ, storeSecrets, provider, run, residual, exit_status, iam_username, list_ret,
                   starting_num_keys, new_access_key, new_secret_key, access_keys,
                   public_key, pub_key_id, encrypted_access_key, encrypted_secret_key, boxes,
                   calls, stdout, raised>>


\* the text of a response of the secret store
ResponseText(status) == "response " \o ToString(status)

\* the message of the exception get_pub_key raises
PubKeyError(status, owner_repo, github_token) ==
    <<"github public key request failed, status code: ", ToString(status),
      ", body: ", ResponseText(status), ", vars: ">> \o owner_repo \o <<" ", github_token>>

\* the message interpolating the uploaded value instead of the token
UploadError_leak(status, owner_repo, github_token) ==
    <<"upload secret request failed, status code: ", ToString(status),
      ", body: ", ResponseText(status), ", vars: ">> \o owner_repo \o <<" ", new_secret_key>>

\* the message of the exception upload_secret raises
UploadError(status, owner_repo, github_token) ==
    <<"upload secret request failed, status code: ", ToString(status),
      ", body: ", ResponseText(status), ", vars: ">> \o owner_repo \o <<" ", github_token>>

\* the confirmation upload_secret prints
UpdatedLine(key_name, owner_repo, github_environment) ==
    IF EnvironmentScoped(github_environment)
    THEN <<"Updated: ", key_name, " in ">> \o owner_repo \o <<" for ", github_environment>>
    ELSE <<"Updated: ", key_name, " in ">> \o owner_repo

\* (public_key, pub_key_id) = get_pub_key(repos, github_token)
GetPubKey ==
    /\ pc = "get_pub_key"
    /\ LET owner_repo == targets[repos]
           endpoint == PubKeyEndpoint(owner_repo, environ.GITHUB_ENVIRONMENT)
       IN  \E status \in PubKeyStatuses :
             /\ calls' = Append(calls, Call("requests.get", "", "", endpoint,
                                            environ.PERSONAL_ACCESS_TOKEN, NoBody, status))
             /\ IF PubKeyFailed(status)
                THEN /\ Raise(PubKeyError(status, owner_repo, environ.PERSONAL_ACCESS_TOKEN))
                     /\ UNCHANGED <<public_key, pub_key_id>>
                ELSE /\ public_key' = GithubPublicKey(endpoint).key
                     /\ pub_key_id' = GithubPublicKey(endpoint).key_id
                     /\ pc' = "encrypt"
                     /\ UNCHANGED <<exit_status, raised>>
    /\ UNCHANGED <<environ, storeSecrets, provider, run, residual, iam_username, list_ret, starting_num_keys,
                   new_access_key, new_secret_key, access_keys, targets, repos,
                   encrypted_access_key, encrypted_secret_key, boxes, stdout, output_file>>

\* encrypted_access_key = encrypt(...); encrypted_secret_key = encrypt(...)
EncryptKeys ==
    /\ pc = "encrypt"
    /\ encrypted_access_key' = Encrypt(public_key, new_access_key, boxes + 1)
    /\ encrypted_secret_key' = Encrypt(public_key, new_secret_key, boxes + 2)
    /\ boxes' = boxes + 2
    /\ pc' = "upload_access_key"
    /\ UNCHANGED <<environ, storeSecrets, provider, run, residual, exit_status, iam_username, list_ret,
                   starting_num_keys, new_access_key, new_secret_key, access_keys, targets, repos,
                   public_key, pub_key_id, calls, stdout, raised, output_file>>

\* upload_secret(owner_repo, key_name, encrypted_value, pub_key_id, github_token);
\* next is where main_function goes on when the call returns
UploadSecret(key_name, encrypted_value, next) ==
    LET owner_repo == targets[repos]
        endpoint == SecretEndpoint(owner_repo, key_name, environ.GITHUB_ENVIRONMENT)
        body == [encrypted_value |-> encrypted_value, key_id |-> pub_key_id,
                 visibility |-> "private"]
    IN  \E status \in UploadStatuses(endpoint, storeSecrets) :
          /\ storeSecrets' = IF status \in UploadRefusals THEN storeSecrets
                             ELSE storeSecrets \cup {endpoint}
          /\ calls' = Append(calls, Call("requests.put", "", "", endpoint,
                                         environ.PERSONAL_ACCESS_TOKEN, body, status))
          /\ IF UploadFailed(status)
             THEN /\ Raise(UploadError(status, owner_repo, environ.PERSONAL_ACCESS_TOKEN))
                  /\ UNCHANGED stdout
             ELSE /\ StdoutLine(UpdatedLine(key_name, owner_repo, environ.GITHUB_ENVIRONMENT))
                  /\ pc' = next
                  /\ UNCHANGED <<exit_status, raised>>

\* upload_secret(repos, access_key_name, encrypted_access_key, ...)
UploadAccessKey ==
    /\ pc = "upload_access_key"
    /\ UploadSecret(access_key_name, encrypted_access_key, "upload_secret_key")
    /\ UNCHANGED <<environ, provider, run, residual, iam_username, list_ret, starting_num_keys,
                   new_access_key, new_secret_key, access_keys, targets, repos, public_key, pub_key_id,
                   encrypted_access_key, encrypted_secret_key, boxes, output_file>>

\* the loop going over the same entry again
NextTarget_same(index) == index

\* for repos in [...]: the loop variable advances to the next entry
NextTarget(index) == index + 1

\* the id handed to delete_old_keys taken from the list read after the mint
OldKeyId_newest(first_list) == access_keys[Len(access_keys)]

\* list_ret["AccessKeyMetadata"][0]["AccessKeyId"]
OldKeyId(first_list) == first_list[1]

\* upload_secret(repos, secret_key_name, encrypted_secret_key, ...), the last
\* statement of the loop body: the loop goes to the next target or ends
UploadSecretKey ==
    /\ pc = "upload_secret_key"
    /\ UploadSecret(secret_key_name, encrypted_secret_key,
                    IF repos < Len(targets) THEN "get_pub_key" ELSE "retire")
    /\ repos' = IF pc' = "get_pub_key" THEN NextTarget(repos) ELSE repos
    /\ UNCHANGED <<environ, provider, run, residual, iam_username, list_ret, starting_num_keys,
                   new_access_key, new_secret_key, access_keys, targets, public_key, pub_key_id,
                   encrypted_access_key, encrypted_secret_key, boxes, output_file>>

\* delete_old_keys: the provider removes the key when it answers 200
Retire ==
    /\ pc = "retire"
    /\ IF ShouldDeleteOld(starting_num_keys)
       THEN \E status \in DeleteStatuses :
              LET current_access_id == OldKeyId(list_ret)
              IN  /\ calls' = Append(calls, IamCall("iam.delete_access_key", iam_username,
                                                    current_access_id, status))
                  /\ iamKeys' = IF status = 200
                                THEN SelectSeq(iamKeys, LAMBDA k : k # current_access_id)
                                ELSE iamKeys
                  /\ IF status = 403
                     THEN /\ Raise(<<"ClientError", "DeleteAccessKey">>)
                          /\ UNCHANGED stdout
                     ELSE IF DeleteFailed(status)
                     THEN /\ StdoutLine(<<"deletion of original key failed">>)
                          /\ Exit(1)
                          /\ UNCHANGED raised
                     ELSE /\ Exit(0)
                          /\ UNCHANGED <<stdout, raised>>
       ELSE /\ Exit(0)
            /\ UNCHANGED <<iamKeys, calls, stdout, raised>>
    /\ UNCHANGED <<environ, storeSecrets, nextKey, run, residual, iam_username, list_ret, starting_num_keys,
                   new_access_key, new_secret_key, access_keys, targets, repos, public_key, pub_key_id,
                   encrypted_access_key, encrypted_secret_key, boxes, output_file>>

\* the run started with one key, verified the key it minted and failed later
FailedAfterMint ==
    /\ pc = "exited" /\ exit_status = 1
    /\ starting_num_keys = 1
    /\ \E i \in 1..Len(access_keys) : access_keys[i] = new_access_key

\* the job is started again, on what the previous run left at the provider
StartAgain ==
    /\ pc = "exited"
    /\ run < MaxRuns
    /\ run' = run + 1
    /\ residual' = (residual \/ FailedAfterMint)
    /\ pc' = "resolve"
    /\ exit_status' = -1
    /\ iam_username' = None
    /\ list_ret' = <<>>
    /\ starting_num_keys' = -1
    /\ new_access_key' = None
    /\ new_secret_key' = None
    /\ access_keys' = <<>>
    /\ targets' = <<>>
    /\ repos' = 0
    /\ public_key' = None
    /\ pub_key_id' = None
    /\ encrypted_access_key' = NoBox
    /\ encrypted_secret_key' = NoBox
    /\ boxes' = 0
    /\ calls' = <<>>
    /\ stdout' = <<>>
    /\ raised' = <<>>
    /\ output_file' = <<>>
    /\ UNCHANGED <<environ, storeSecrets, provider>>

Next ==
    \/ ResolveIdentity
    \/ ListKeys
    \/ CreateKey
    \/ VerifyKey
    \/ WriteOutput
    \/ GetPubKey
    \/ EncryptKeys
    \/ UploadAccessKey
    \/ UploadSecretKey
    \/ Retire
    \/ StartAgain

Spec == Init /\ [][Next]_vars


(***************************************************************************)
(* Observations on a run.                                                  *)
(***************************************************************************)
IsList(c) == c.api = "iam.list_access_keys"
IsCreate(c) == c.api = "iam.create_access_key"
IsDelete(c) == c.api = "iam.delete_access_key"
IsPubKeyFetch(c) == c.api = "requests.get"
IsUpload(c) == c.api = "requests.put"
IsWhoAmI(c) == c.api = "sts.get_caller_identity"

Issued(IsKind(_)) == \E i \in 1..Len(calls) : IsKind(calls[i])
CountOf(IsKind(_)) == Cardinality({ i \in 1..Len(calls) : IsKind(calls[i]) })

\* the call was answered with a status that stands for success
Succeeded(c) ==
    IF IsUpload(c) THEN c.status = 201 \/ c.status = 204 ELSE c.status = 200

Terminated(status) == pc = "exited" /\ exit_status = status

\* the targets in the order OWNER_REPOSITORY supplies them
SuppliedTargets ==
    LET pieces == Split(environ.OWNER_REPOSITORY, ",")
    IN  [k \in 1..Len(pieces) |-> Strip(pieces[k])]

\* the calls made to the secret stores, in order: three per target
StoreCalls == SelectSeq(calls, LAMBDA c : IsPubKeyFetch(c) \/ IsUpload(c))

\* the call goes to the secret store of target owner_repo
Addresses(c, owner_repo) ==
    LET n == Len(owner_repo)
    IN  /\ Len(c.endpoint) >= n + 4
        /\ SubSeq(c.endpoint, 3, n + 2) = owner_repo
        /\ c.endpoint[n + 3] = "/"
        /\ c.endpoint[n + 4] \in {"actions", "environments"}

\* among the store calls sc, the three of target k, which is owner_repo: its
\* public key was fetched and both secrets were uploaded
PropagatedIn(sc, k, owner_repo) ==
    /\ Len(sc) >= 3 * k
    /\ \A j \in (3 * k - 2)..(3 * k) : Addresses(sc[j], owner_repo)
    /\ IsPubKeyFetch(sc[3 * k - 2]) /\ Succeeded(sc[3 * k - 2])
    /\ IsUpload(sc[3 * k - 1]) /\ Succeeded(sc[3 * k - 1])
    /\ sc[3 * k - 1].json.encrypted_value.plaintext = new_access_key
    /\ IsUpload(sc[3 * k]) /\ Succeeded(sc[3 * k])
    /\ sc[3 * k].json.encrypted_value.plaintext = new_secret_key

Propagated(k) == PropagatedIn(StoreCalls, k, SuppliedTargets[k])

AllPropagated ==
    LET sc == StoreCalls
        ts == SuppliedTargets
    IN  \A k \in 1..Len(ts) : PropagatedIn(sc, k, ts[k])

PropagationFailed ==
    LET sc == StoreCalls
    IN  \E i \in 1..Len(sc) : ~ Succeeded(sc[i])

(***************************************************************************)
(* C1  Guard: when the first list of the run returns two or more keys, the *)
(* run ends with exit status 1, has issued no create, delete, public-key   *)
(* fetch or upload call and has appended nothing to the output file.       *)
(***************************************************************************)
C1_GuardRefuses ==
    starting_num_keys >= 2 =>
        /\ Terminated(1)
        /\ ~ Issued(IsCreate) /\ ~ Issued(IsDelete)
        /\ ~ Issued(IsPubKeyFetch) /\ ~ Issued(IsUpload)
        /\ output_file = <<>>
        /\ iamKeys = list_ret

C1_Witness == starting_num_keys = 2 /\ Terminated(1) /\ CountOf(IsList) = 1

(***************************************************************************)
(* C2  Read-after-write failure: when the list fetched right after the     *)
(* creation does not hold the new access id, the run ends with exit status *)
(* 1 and issues no public-key fetch, no upload and no delete.              *)
(***************************************************************************)
VerificationListed ==
    CountOf(LAMBDA c : IsList(c) /\ c.status = 200) = 2

MintAbsent ==
    /\ new_access_key # None
    /\ VerificationListed
    /\ \A i \in 1..Len(access_keys) : access_keys[i] # new_access_key

C2_UnverifiedNeverPropagated ==
    MintAbsent =>
        /\ Terminated(1)
        /\ ~ Issued(IsPubKeyFetch) /\ ~ Issued(IsUpload) /\ ~ Issued(IsDelete)

C2_Witness ==
    /\ MintAbsent /\ Terminated(1)
    /\ Len(SuppliedTargets) = 2 /\ starting_num_keys = 1

(***************************************************************************)
(* C3  Retirement guard: a delete is issued only when the first list held  *)
(* exactly one key and every target has had its public key fetched and     *)
(* both uploads accepted; a run that ends after all that with one starting *)
(* key has issued the delete; with no starting key there is no delete; and *)
(* when the propagation failed on a target the old key is still there.     *)
(***************************************************************************)
C3_RetirementGuard ==
    /\ Issued(IsDelete) => starting_num_keys = 1 /\ AllPropagated
    /\ (pc = "exited" /\ starting_num_keys = 1 /\ AllPropagated) => Issued(IsDelete)
    /\ starting_num_keys = 0 => ~ Issued(IsDelete)
    /\ PropagationFailed =>
          /\ ~ Issued(IsDelete)
          /\ starting_num_keys = 1 => \E i \in 1..Len(iamKeys) : iamKeys[i] = list_ret[1]

C3_Witness ==
    /\ Issued(IsDelete) /\ starting_num_keys = 1 /\ AllPropagated
    /\ Len(SuppliedTargets) = 2

C3_WitnessNoDelete ==
    /\ Terminated(0) /\ starting_num_keys = 0 /\ AllPropagated /\ ~ Issued(IsDelete)


(***************************************************************************)
(* C4  Partial propagation: when the public-key fetch or an upload of      *)
(* target K fails, every target before K has received both uploads, no     *)
(* call has gone to a target after K, the failed call is the last call of  *)
(* the run (nothing is rolled back) and the run ends with exit status 1.   *)
(***************************************************************************)
TargetIndex(j) == ((j - 1) \div 3) + 1

C4_PartialPropagation ==
    LET sc == StoreCalls
        ts == SuppliedTargets
    IN  \A j \in 1..Len(sc) :
            ~ Succeeded(sc[j]) =>
                /\ j = Len(sc)
                /\ calls[Len(calls)] = sc[j]
                /\ Addresses(sc[j], ts[TargetIndex(j)])
                /\ \A k \in 1..(TargetIndex(j) - 1) : PropagatedIn(sc, k, ts[k])
                /\ CountOf(IsPubKeyFetch) = TargetIndex(j)
                /\ CountOf(IsUpload) <= 2 * TargetIndex(j)
                /\ Terminated(1)

C4_Witness ==
    /\ Len(SuppliedTargets) = 2
    /\ Len(StoreCalls) = 5
    /\ ~ Succeeded(StoreCalls[5])
    /\ Propagated(1)
    /\ Terminated(1)

C4_WitnessFirstTarget ==
    /\ Len(SuppliedTargets) = 2
    /\ Len(StoreCalls) = 1
    /\ ~ Succeeded(StoreCalls[1])
    /\ Terminated(1)

(***************************************************************************)
(* C5  Successful run: a run that ends with exit status 0 started with 0   *)
(* or 1 key, created a key whose id was in the list fetched after the      *)
(* creation, and leaves that key as the user's only key: the key that was  *)
(* there at the start, if any, is gone from the provider.                  *)
(***************************************************************************)
C5_SuccessfulRun ==
    Terminated(0) =>
        /\ starting_num_keys \in {0, 1}
        /\ \E i \in 1..Len(calls) : IsCreate(calls[i]) /\ calls[i].status = 200
        /\ new_access_key # None
        /\ \E i \in 1..Len(access_keys) : access_keys[i] = new_access_key
        /\ starting_num_keys = 1 =>
              \A i \in 1..Len(iamKeys) : iamKeys[i] # list_ret[1]
        /\ iamKeys = <<new_access_key>>

C5_Witness ==
    /\ Terminated(0) /\ starting_num_keys = 1
    /\ iamKeys = <<new_access_key>>
    /\ Issued(IsDelete)

(***************************************************************************)
(* C6  Exit status: a run ends with status 0 only when every call was      *)
(* answered with success, the guard passed, the new key was verified,      *)
(* every target got both uploads and the delete, when required, was        *)
(* answered 200; a call that is not answered with success, the guard and   *)
(* the failed verification end the run with status 1 at that very step.    *)
(***************************************************************************)
C6_ExitStatus ==
    /\ exit_status \in {-1, 0, 1}
    /\ pc = "exited" <=> exit_status # -1
    /\ Terminated(0) =>
          /\ \A i \in 1..Len(calls) : Succeeded(calls[i])
          /\ starting_num_keys \in {0, 1}
          /\ \E i \in 1..Len(access_keys) : access_keys[i] = new_access_key
          /\ AllPropagated
          /\ starting_num_keys = 1 => Issued(IsDelete) /\ IsDelete(calls[Len(calls)])
    /\ \A i \in 1..Len(calls) :
          ~ Succeeded(calls[i]) => i = Len(calls) /\ Terminated(1)
    /\ starting_num_keys >= 2 =>
          Terminated(1) /\ IsList(calls[Len(calls)]) /\ CountOf(IsList) = 1
    /\ MintAbsent =>
          Terminated(1) /\ IsList(calls[Len(calls)]) /\ CountOf(IsList) = 2

C6_Witness ==
    /\ Terminated(1)
    /\ IsDelete(calls[Len(calls)])
    /\ calls[Len(calls)].status = 202
    /\ AllPropagated

C6_WitnessSuccess == Terminated(0) /\ Len(SuppliedTargets) = 2 /\ Issued(IsDelete)


(***************************************************************************)
(* C7  Identity resolution: with IAM_USERNAME set, its value is the        *)
(* identity and the introspection endpoint is not queried.                 *)
(***************************************************************************)
OverrideSupplied == environ.IAM_USERNAME # None

C7_OverrideSkipsIntrospection ==
    OverrideSupplied =>
        /\ ~ Issued(IsWhoAmI)
        /\ pc \notin {"resolve", "exited"} => iam_username = environ.IAM_USERNAME

(***************************************************************************)
(* C8  Endpoints.  As claimed: with an environment name configured the     *)
(* fetch and the uploads go to                                             *)
(*   {repos|orgs}/{target}/environments/{env}/actions/secrets/...          *)
(* and without one to {repos|orgs}/{target}/actions/secrets/...            *)
(* As amended: the environment-scoped paths have no "actions" segment,     *)
(*   {repos|orgs}/{target}/environments/{env}/secrets/...                  *)
(***************************************************************************)
EnvironmentConfigured ==
    environ.GITHUB_ENVIRONMENT # None /\ environ.GITHUB_ENVIRONMENT # ""

\* the last segment of the path of the j-th call to the secret stores
SecretName(j) ==
    CASE (j - 1) % 3 = 0 -> "public-key"
      [] (j - 1) % 3 = 1 -> access_key_name
      [] (j - 1) % 3 = 2 -> secret_key_name

ExpectedPath(owner_repo, name, scoped_under_actions) ==
    LET segment == IF \E i \in 1..Len(owner_repo) : owner_repo[i] = "/"
                   THEN "repos" ELSE "orgs"
        scope == IF ~ EnvironmentConfigured THEN <<"/", "actions">>
                 ELSE IF scoped_under_actions
                 THEN <<"/", "environments", "/", environ.GITHUB_ENVIRONMENT, "/", "actions">>
                 ELSE <<"/", "environments", "/", environ.GITHUB_ENVIRONMENT>>
    IN  <<segment, "/">> \o owner_repo \o scope \o <<"/", "secrets", "/", name>>

C8_EndpointsAsClaimed ==
    LET sc == StoreCalls
        ts == SuppliedTargets
    IN  \A j \in 1..Len(sc) :
            sc[j].endpoint = ExpectedPath(ts[TargetIndex(j)], SecretName(j), TRUE)

C8_Endpoints ==
    LET sc == StoreCalls
        ts == SuppliedTargets
    IN  \A j \in 1..Len(sc) :
            sc[j].endpoint = ExpectedPath(ts[TargetIndex(j)], SecretName(j), FALSE)

C8_Witness ==
    /\ EnvironmentConfigured
    /\ Len(StoreCalls) = 6
    /\ Len(SuppliedTargets) = 2
    /\ SuppliedTargets[1] # SuppliedTargets[2]

C8_WitnessUnscoped == ~ EnvironmentConfigured /\ Len(StoreCalls) = 6


(***************************************************************************)
(* C9  Confidentiality of the new secret: the secret value of the minted   *)
(* key is in no line printed to standard output and in no message of a     *)
(* raised exception; it is in the output file, and in a request only as    *)
(* the plaintext of a sealed, base64-encoded box for the fetched key.      *)
(***************************************************************************)
Appears(line, value) == \E i \in 1..Len(line) : line[i] = value

Minted == new_secret_key # None

C9_SecretNotLogged ==
    Minted =>
        /\ \A i \in 1..Len(stdout) : ~ Appears(stdout[i], new_secret_key)
        /\ ~ Appears(raised, new_secret_key)
        /\ \A i \in 1..Len(calls) :
              /\ ~ Appears(calls[i].endpoint, new_secret_key)
              /\ calls[i].Authorization # new_secret_key
              /\ calls[i].UserName # new_secret_key
              /\ calls[i].AccessKeyId # new_secret_key
              /\ calls[i].json.key_id # new_secret_key
              /\ calls[i].json.visibility # new_secret_key
              /\ calls[i].json.encrypted_value.plaintext = new_secret_key =>
                    /\ IsUpload(calls[i])
                    /\ calls[i].json.encrypted_value.encoding = "base64"
                    /\ calls[i].json.encrypted_value.recipient # ""
                    /\ calls[i].json.encrypted_value.eph > 0
        /\ \A i \in 1..Len(output_file) :
              Appears(output_file[i], new_secret_key) =>
                  output_file[i] = <<secret_key_name, "=", new_secret_key>>

C9_Witness ==
    /\ Minted
    /\ Terminated(1)
    /\ Len(raised) > 0
    /\ IsUpload(calls[Len(calls)])
    /\ calls[Len(calls)].json.encrypted_value.plaintext = new_secret_key
    /\ Len(stdout) >= 5

(***************************************************************************)
(* C10  Step ordering: after the introspection, the calls of a run go in   *)
(* the order list, create, list, then for each target in the supplied      *)
(* order public-key fetch, upload of the access id, upload of the secret   *)
(* value, then delete; the create follows an answered first list, and no   *)
(* fetch or upload is issued before the second list held the new id.       *)
(***************************************************************************)
JobCalls == SelectSeq(calls, LAMBDA c : ~ IsWhoAmI(c))

\* the i-th call of a run that has n targets
ExpectedApi(i, n) ==
    IF i = 1 THEN "iam.list_access_keys"
    ELSE IF i = 2 THEN "iam.create_access_key"
    ELSE IF i = 3 THEN "iam.list_access_keys"
    ELSE IF i <= 3 + 3 * n
         THEN (IF (i - 4) % 3 = 0 THEN "requests.get" ELSE "requests.put")
    ELSE "iam.delete_access_key"

C10_StepOrder ==
    /\ \A i \in 1..Len(calls) : IsWhoAmI(calls[i]) => i = 1
    /\ LET jc == JobCalls
           ts == SuppliedTargets
           n == Len(ts)
       IN  /\ Len(jc) <= 3 + 3 * n + 1
           /\ \A i \in 1..Len(jc) :
                 /\ jc[i].api = ExpectedApi(i, n)
                 /\ i > 1 => Succeeded(jc[i - 1])
                 /\ (i > 3 /\ i <= 3 + 3 * n) =>
                       /\ Addresses(jc[i], ts[TargetIndex(i - 3)])
                       /\ jc[i].endpoint[Len(jc[i].endpoint)] = SecretName(i - 3)
                       /\ IsUpload(jc[i]) =>
                             jc[i].json.encrypted_value.plaintext =
                                 (IF SecretName(i - 3) = access_key_name
                                  THEN new_access_key ELSE new_secret_key)
    /\ (Issued(IsPubKeyFetch) \/ Issued(IsUpload)) =>
          /\ VerificationListed
          /\ \E i \in 1..Len(access_keys) : access_keys[i] = new_access_key

C10_Witness ==
    /\ Len(calls) = 11
    /\ IsDelete(calls[11])
    /\ Len(SuppliedTargets) = 2
    /\ SuppliedTargets[1] # SuppliedTargets[2]


(***************************************************************************)
(* C11  Residual state: a run that started with one key, verified the key  *)
(* it minted and then failed has made no call after the failed one and     *)
(* leaves the user with the old and the new key; every later run of the    *)
(* job then ends with exit status 1 without a create, a public-key fetch,  *)
(* an upload, a delete or an output line, refused at the guard as soon as  *)
(* its first list is answered.                                             *)
(***************************************************************************)
C11_ResidualState ==
    /\ FailedAfterMint =>
          /\ iamKeys = <<list_ret[1], new_access_key>>
          /\ ~ Succeeded(calls[Len(calls)])
          /\ \A i \in 1..(Len(calls) - 1) : Succeeded(calls[i])
          /\ ~ IsCreate(calls[Len(calls)]) /\ ~ IsList(calls[Len(calls)])
    /\ residual =>
          /\ Len(iamKeys) = 2
          /\ ~ Issued(IsCreate) /\ ~ Issued(IsDelete)
          /\ ~ Issued(IsPubKeyFetch) /\ ~ Issued(IsUpload)
          /\ output_file = <<>>
          /\ pc \in {"resolve", "list", "exited"}
          /\ pc = "exited" => exit_status = 1
          /\ starting_num_keys # -1 => starting_num_keys = 2 /\ Terminated(1)

C11_Witness ==
    /\ residual
    /\ starting_num_keys = 2
    /\ Terminated(1)
    /\ CountOf(IsList) = 1


(***************************************************************************)
(* C12  Key binding: the calls to the stores come in groups of one fetch   *)
(* followed by two uploads for one entry of the target list; both uploads  *)
(* carry the key id the fetch of their group returned and a box sealed for *)
(* the key that fetch returned, and never the key or key id fetched for a  *)
(* different target.                                                       *)
(***************************************************************************)
C12_KeyBinding ==
    LET sc == StoreCalls
        ts == SuppliedTargets
    IN  \A j \in 1..Len(sc) :
            /\ IsPubKeyFetch(sc[j]) <=> (j - 1) % 3 = 0
            /\ IsUpload(sc[j]) =>
                  LET k == TargetIndex(j)
                      fetch == sc[3 * k - 2]
                  IN  /\ Succeeded(fetch)
                      /\ Addresses(fetch, ts[k])
                      /\ Addresses(sc[j], ts[k])
                      /\ sc[j].json.key_id = GithubPublicKey(fetch.endpoint).key_id
                      /\ sc[j].json.encrypted_value.recipient =
                             GithubPublicKey(fetch.endpoint).key
                      /\ \A i \in 1..Len(sc) :
                            (IsPubKeyFetch(sc[i]) /\ ts[TargetIndex(i)] # ts[k]) =>
                                /\ sc[j].json.key_id #
                                       GithubPublicKey(sc[i].endpoint).key_id
                                /\ sc[j].json.encrypted_value.recipient #
                                       GithubPublicKey(sc[i].endpoint).key

C12_Witness ==
    /\ Len(StoreCalls) = 6
    /\ Len(SuppliedTargets) = 2
    /\ SuppliedTargets[1] # SuppliedTargets[2]
    /\ StoreCalls[6].json.key_id # StoreCalls[3].json.key_id

(***************************************************************************)
(* C13  No retries: a run makes at most one introspection, one create and  *)
(* one delete, at most two lists, and for each entry of the target list at *)
(* most one fetch and one upload per secret name; no call follows a call   *)
(* that failed.                                                            *)
(***************************************************************************)
C13_NoRetries ==
    /\ CountOf(IsWhoAmI) <= 1
    /\ CountOf(IsList) <= 2
    /\ CountOf(IsCreate) <= 1
    /\ CountOf(IsDelete) <= 1
    /\ \A i \in 1..(Len(calls) - 1) : Succeeded(calls[i])
    /\ LET sc == StoreCalls
           ts == SuppliedTargets
       IN  /\ Len(sc) <= 3 * Len(ts)
           /\ \A j \in 1..Len(sc) :
                 /\ Addresses(sc[j], ts[TargetIndex(j)])
                 /\ sc[j].endpoint[Len(sc[j].endpoint)] = SecretName(j)
                 /\ IsPubKeyFetch(sc[j]) <=> SecretName(j) = "public-key"

C13_Witness ==
    /\ Terminated(1)
    /\ Len(SuppliedTargets) = 2
    /\ Len(StoreCalls) = 4
    /\ ~ Succeeded(StoreCalls[4])
    /\ CountOf(IsCreate) = 1


(***************************************************************************)
(* C14  Status acceptance: an upload is accepted exactly when it is        *)
(* answered 201 or 204, a public-key fetch exactly when it is answered     *)
(* 200.  A call answered otherwise, also with another 2xx status, is the   *)
(* last call of the run, which ends with exit status 1 on an exception     *)
(* that carries the status; no confirmation is printed for that secret.    *)
(***************************************************************************)
Confirmations ==
    Cardinality({ i \in 1..Len(stdout) : stdout[i][1] = "Updated: " })

AcceptedUploads ==
    Cardinality({ i \in 1..Len(calls) :
                     IsUpload(calls[i]) /\ calls[i].status \in {201, 204} })

C14_StatusAcceptance ==
    /\ Confirmations = AcceptedUploads
    /\ \A i \in 1..Len(calls) :
          /\ ( \/ IsUpload(calls[i]) /\ calls[i].status \notin {201, 204}
               \/ IsPubKeyFetch(calls[i]) /\ calls[i].status # 200 ) =>
                 /\ i = Len(calls)
                 /\ Terminated(1)
                 /\ Len(raised) > 1
                 /\ raised[2] = ToString(calls[i].status)
          /\ (IsPubKeyFetch(calls[i]) /\ calls[i].status = 200 /\ pc = "exited") =>
                 i < Len(calls)
          /\ (IsUpload(calls[i]) /\ calls[i].status \in {201, 204}) =>
                 /\ Len(raised) > 0 => i < Len(calls)
                 /\ \E l \in 1..Len(stdout) :
                       /\ stdout[l][1] = "Updated: "
                       /\ stdout[l][2] = calls[i].endpoint[Len(calls[i].endpoint)]

C14_Witness ==
    /\ Terminated(1)
    /\ IsPubKeyFetch(calls[Len(calls)])
    /\ calls[Len(calls)].status = 202
    /\ Confirmations = 2

C14_WitnessUpload ==
    /\ Terminated(1)
    /\ IsUpload(calls[Len(calls)])
    /\ calls[Len(calls)].status = 200
    /\ Confirmations = 1


(***************************************************************************)
(* C15  Output emission: the output file holds nothing or exactly two      *)
(* lines, access-id field then secret-value field, under the configured    *)
(* names (defaults access_key_id, secret_key_id).  The lines are there     *)
(* only when the mint was verified, they are there from the step after     *)
(* the verification on, hence before the first public-key fetch, and a     *)
(* run that stops at the guard or at the failed verification leaves the    *)
(* file as it was.                                                         *)
(***************************************************************************)
Verified ==
    /\ new_access_key # None
    /\ VerificationListed
    /\ \E i \in 1..Len(access_keys) : access_keys[i] = new_access_key

ExpectedOutput ==
    LET id_field     == IF environ.GITHUB_ACCESS_KEY_NAME = None
                        THEN "access_key_id" ELSE environ.GITHUB_ACCESS_KEY_NAME
        secret_field == IF environ.GITHUB_SECRET_KEY_NAME = None
                        THEN "secret_key_id" ELSE environ.GITHUB_SECRET_KEY_NAME
    IN  << <<id_field, "=", new_access_key>>, <<secret_field, "=", new_secret_key>> >>

C15_OutputEmission ==
    /\ output_file = <<>> \/ output_file = ExpectedOutput
    /\ output_file # <<>> => Verified
    /\ (Verified /\ pc # "output") => output_file = ExpectedOutput
    /\ pc = "output" => Verified /\ output_file = <<>> /\ ~ Issued(IsPubKeyFetch)
    /\ Issued(IsPubKeyFetch) => output_file = ExpectedOutput
    /\ (starting_num_keys >= 2 \/ MintAbsent) => output_file = <<>>
    /\ (pc = "exited" /\ ~ Verified) => output_file = <<>>

C15_Witness ==
    /\ environ.GITHUB_ACCESS_KEY_NAME = "AWS_ID"
    /\ environ.GITHUB_SECRET_KEY_NAME = None
    /\ pc = "get_pub_key" /\ ~ Issued(IsPubKeyFetch)
    /\ output_file = << <<"AWS_ID", "=", new_access_key>>,
                        <<"secret_key_id", "=", new_secret_key>> >>

C15_WitnessUnchanged == MintAbsent /\ Terminated(1) /\ output_file = <<>>


(***************************************************************************)
(* C16  Target classification: every call to a secret store starts its     *)
(* path with repos when its target contains "/" and with orgs when it      *)
(* does not, and the public-key fetch and the two uploads of one target    *)
(* use the same segment.                                                   *)
(***************************************************************************)
HasSlash(owner_repo) == \E i \in 1..Len(owner_repo) : owner_repo[i] = "/"

Segment(c) == c.endpoint[1]

C16_TargetClassification ==
    LET sc == StoreCalls
        ts == SuppliedTargets
    IN  \A j \in 1..Len(sc) :
            /\ TargetIndex(j) <= Len(ts)
            /\ Addresses(sc[j], ts[TargetIndex(j)])
            /\ HasSlash(ts[TargetIndex(j)]) => Segment(sc[j]) = "repos"
            /\ ~ HasSlash(ts[TargetIndex(j)]) => Segment(sc[j]) = "orgs"
            /\ \A h \in 1..Len(sc) :
                  TargetIndex(h) = TargetIndex(j) => Segment(sc[h]) = Segment(sc[j])
            /\ IsPubKeyFetch(sc[j]) <=> (j - 1) % 3 = 0

C16_Witness ==
    LET sc == StoreCalls
    IN  /\ Len(sc) = 6
        /\ Len(SuppliedTargets) = 2
        /\ ~ HasSlash(SuppliedTargets[1]) /\ HasSlash(SuppliedTargets[2])
        /\ \A j \in 1..3 : Segment(sc[j]) = "orgs"
        /\ \A j \in 4..6 : Segment(sc[j]) = "repos"


(***************************************************************************)
(* C17  The id passed to delete_access_key is the first entry of the list  *)
(* read before the mint, and it is never the id minted in this run: the    *)
(* minted credential is still held by the identity after the deletion.     *)
(***************************************************************************)
C17_DeletesOldKey ==
    \A i \in 1..Len(calls) :
        IsDelete(calls[i]) =>
            /\ Len(list_ret) = 1
            /\ calls[i].AccessKeyId = list_ret[1]
            /\ calls[i].AccessKeyId # new_access_key
            /\ \E k \in 1..Len(iamKeys) : iamKeys[k] = new_access_key
            /\ calls[i].status = 200 =>
                  \A k \in 1..Len(iamKeys) : iamKeys[k] # list_ret[1]
            /\ AllPropagated

C17_Witness ==
    /\ Issued(IsDelete)
    /\ calls[Len(calls)].status = 200
    /\ calls[Len(calls)].AccessKeyId = list_ret[1]
    /\ iamKeys = <<new_access_key>>
    /\ Terminated(0)


(***************************************************************************)
(* C18  The bearer token of the secret store is used only as the           *)
(* Authorization of the public-key fetches and the uploads; it appears in  *)
(* no line of standard output and in no message of an exception raised by  *)
(* a failed fetch or a failed upload.                                      *)
(***************************************************************************)
C18_TokenNotLogged ==
    LET github_token == environ.PERSONAL_ACCESS_TOKEN
    IN  /\ \A i \in 1..Len(calls) :
              /\ calls[i].Authorization = github_token =>
                     IsPubKeyFetch(calls[i]) \/ IsUpload(calls[i])
              /\ ~ Appears(calls[i].endpoint, github_token)
              /\ calls[i].UserName # github_token
              /\ calls[i].AccessKeyId # github_token
        /\ \A i \in 1..Len(stdout) : ~ Appears(stdout[i], github_token)
        /\ ~ Appears(raised, github_token)

====
